---- MODULE Spec2Model ----
(***************************************************************************)
(* A model of scripts/expand-refs.py: the JSON-pointer resolver            *)
(* (resolve_ref_pointer), the recursive reference expander (expand_refs,   *)
(* run here as an explicit call stack, one frame per Python call), and the *)
(* components pruner (remove_unused_components) as process_file runs them. *)
(*                                                                         *)
(* Python strings are sequences of one-character strings, so that          *)
(* startswith, slicing, split, replace, int() and the f-strings that build *)
(* locations, tracking keys and messages are modelled by what they do.     *)
(*                                                                         *)
(* A document node is a record [k, v]: k is the Python type name ("dict",  *)
(* "list", "str", "int", "bool", "NoneType"); v is, for a dict, the        *)
(* sequence of its entries [key, val] in insertion order, for a list the   *)
(* sequence of its items, and for a scalar the characters of str(value).   *)
(***************************************************************************)
EXTENDS Integers, Sequences, FiniteSets, TLC

\* ------------------------------------------------------------ literals
S_root == <<"r","o","o","t">>
S_ref == <<"$","r","e","f">>
S_type == <<"t","y","p","e">>
S_object == <<"o","b","j","e","c","t">>
S_description == <<"d","e","s","c","r","i","p","t","i","o","n">>
S_components == <<"c","o","m","p","o","n","e","n","t","s">>
S_schemas == <<"s","c","h","e","m","a","s">>
S_MaxDepthMsg == <<"M","a","x"," ","e","x","p","a","n","s","i","o","n"," ","d","e","p","t","h"," ","r","e","a","c","h","e","d"," ","a","t"," ">>
S_CircularMsg == <<"C","i","r","c","u","l","a","r"," ","r","e","f","e","r","e","n","c","e",":"," ">>
S_ErrorMsg == <<"E","r","r","o","r"," ","r","e","s","o","l","v","i","n","g"," ">>
S_ExternalMsg == <<"E","x","t","e","r","n","a","l"," ","r","e","f","e","r","e","n","c","e","s"," ","n","o","t"," ","s","u","p","p","o","r","t","e","d",":"," ">>
S_CannotResolveMsg == <<"C","a","n","n","o","t"," ","r","e","s","o","l","v","e"," ","p","a","t","h"," ">>
S_IndexErrorMsg == <<"l","i","s","t"," ","i","n","d","e","x"," ","o","u","t"," ","o","f"," ","r","a","n","g","e">>
S_IntErrorMsg == <<"i","n","v","a","l","i","d"," ","l","i","t","e","r","a","l"," ","f","o","r"," ","i","n","t","(",")"," ","w","i","t","h"," ","b","a","s","e"," ","1","0",":"," ">>
S_NoStartswithMsg == <<" ","o","b","j","e","c","t"," ","h","a","s"," ","n","o"," ","a","t","t","r","i","b","u","t","e"," ","'","s","t","a","r","t","s","w","i","t","h","'">>
S_SchemasPrefix == <<"#","/","c","o","m","p","o","n","e","n","t","s","/","s","c","h","e","m","a","s","/">>
S_Pet == <<"P","e","t">>
S_override == <<"o","v","e","r","r","i","d","e">>
S_original == <<"o","r","i","g","i","n","a","l">>
S_string == <<"s","t","r","i","n","g">>
S_DoesNotExist == <<"D","o","e","s","N","o","t","E","x","i","s","t">>
S_http == <<"h","t","t","p",":","/","/","x">>

Digits == <<"0","1","2","3","4","5","6","7","8","9">>

\* ------------------------------------------------------------ the program's constant
MAX_DEPTH == 10

\* ------------------------------------------------------------ nodes
Dict(entries) == [k |-> "dict", v |-> entries]
List(items) == [k |-> "list", v |-> items]
Str(chars) == [k |-> "str", v |-> chars]
Num(chars) == [k |-> "int", v |-> chars]
Bool(chars) == [k |-> "bool", v |-> chars]
None == [k |-> "NoneType", v |-> <<"N","o","n","e">>]
KV(key, val) == [key |-> key, val |-> val]

IsDict(n) == n.k = "dict"
IsList(n) == n.k = "list"
IsScalar(n) == n.k \notin {"dict", "list"}

\* key in d
HasKey(d, key) == \E i \in 1..Len(d.v) : d.v[i].key = key
\* d[key], for a key that is there
Get(d, key) == d.v[CHOOSE i \in 1..Len(d.v) : d.v[i].key = key].val
Keys(d) == {d.v[i].key : i \in 1..Len(d.v)}

\* repr(s) of a string without quotes or escapes in it
PyRepr(s) == <<"'">> \o s \o <<"'">>

RECURSIVE ReprNode(_)
\* repr(x): 'text', a number or constant as written, {'key': value, ...}, [item, ...]
ReprNode(n) ==
    LET RECURSIVE Joined(_)
        \* ", ".join of the first i entries or items
        Joined(i) ==
            IF i = 0 THEN <<>>
            ELSE (IF i = 1 THEN <<>> ELSE Joined(i - 1) \o <<",", " ">>)
                 \o (IF IsDict(n)
                     THEN PyRepr(n.v[i].key) \o <<":", " ">> \o ReprNode(n.v[i].val)
                     ELSE ReprNode(n.v[i]))
    IN  IF IsDict(n) THEN <<"{">> \o Joined(Len(n.v)) \o <<"}">>
        ELSE IF IsList(n) THEN <<"[">> \o Joined(Len(n.v)) \o <<"]">>
        ELSE IF n.k = "str" THEN PyRepr(n.v)
        ELSE n.v

\* str(x), as an f-string renders it: a string is itself, anything else its repr
PyStr(n) == IF n.k = "str" THEN n.v ELSE ReprNode(n)
\* type(x).__name__, spelled out
TypeName(n) ==
    CASE n.k = "int" -> <<"i","n","t">>
      [] n.k = "bool" -> <<"b","o","o","l">>
      [] n.k = "NoneType" -> <<"N","o","n","e","T","y","p","e">>
      [] n.k = "dict" -> <<"d","i","c","t">>
      [] n.k = "list" -> <<"l","i","s","t">>
      [] OTHER -> <<"s","t","r">>

\* ------------------------------------------------------------ Python string operations
\* s.startswith(p)
StartsWith(s, p) == Len(s) >= Len(p) /\ SubSeq(s, 1, Len(p)) = p

\* s[n:]
SliceFrom(s, n) == SubSeq(s, n + 1, Len(s))

RECURSIVE SplitAcc(_, _, _)
SplitAcc(s, sep, cur) ==
    IF s = <<>> THEN <<cur>>
    ELSE IF Head(s) = sep THEN <<cur>> \o SplitAcc(Tail(s), sep, <<>>)
    ELSE SplitAcc(Tail(s), sep, Append(cur, Head(s)))
\* s.split(sep), sep one character
Split(s, sep) == SplitAcc(s, sep, <<>>)

RECURSIVE Replace2(_, _, _, _)
\* s.replace(a + b, r): left to right, occurrences not overlapping
Replace2(s, a, b, r) ==
    IF Len(s) < 2 THEN s
    ELSE IF s[1] = a /\ s[2] = b THEN <<r>> \o Replace2(SubSeq(s, 3, Len(s)), a, b, r)
    ELSE <<s[1]>> \o Replace2(Tail(s), a, b, r)

\* part.replace('~1', '/').replace('~0', '~')
Unescape(part) == Replace2(Replace2(part, "~", "1", "/"), "~", "0", "~")

DigitVal(c) == (CHOOSE i \in 1..10 : Digits[i] = c) - 1
IsDigit(c) == \E i \in 1..10 : Digits[i] = c

RECURSIVE StripLeft(_)
StripLeft(s) == IF s # <<>> /\ Head(s) = " " THEN StripLeft(Tail(s)) ELSE s
RECURSIVE StripRight(_)
StripRight(s) ==
    IF s # <<>> /\ s[Len(s)] = " " THEN StripRight(SubSeq(s, 1, Len(s) - 1)) ELSE s

RECURSIVE DigitsValue(_, _)
DigitsValue(s, acc) ==
    IF s = <<>> THEN acc
    ELSE IF Head(s) = "_" THEN DigitsValue(Tail(s), acc)
    ELSE DigitsValue(Tail(s), 10 * acc + DigitVal(Head(s)))

\* digits, single underscores allowed between two digits
IsDigitString(s) ==
    /\ s # <<>>
    /\ \A i \in 1..Len(s) : IsDigit(s[i]) \/ s[i] = "_"
    /\ s[1] # "_" /\ s[Len(s)] # "_"
    /\ \A i \in 1..(Len(s) - 1) : ~(s[i] = "_" /\ s[i + 1] = "_")

\* int(part): surrounding blanks stripped, an optional sign, decimal digits.
\* [ok, val]; not ok is Python's ValueError.
PyInt(part) ==
    LET t == StripRight(StripLeft(part))
        signed == t # <<>> /\ Head(t) \in {"-", "+"}
        body == IF signed THEN Tail(t) ELSE t
    IN  IF IsDigitString(body)
        THEN [ok |-> TRUE,
              val |-> IF signed /\ Head(t) = "-" THEN 0 - DigitsValue(body, 0)
                      ELSE DigitsValue(body, 0)]
        ELSE [ok |-> FALSE, val |-> 0]

RECURSIVE NatToStr(_)
\* str(i) of a non-negative integer
NatToStr(i) == IF i < 10 THEN <<Digits[i + 1]>> ELSE NatToStr(i \div 10) \o <<Digits[(i % 10) + 1]>>

\* ------------------------------------------------------------ resolve_ref_pointer
Returned(node) == [ok |-> TRUE, val |-> node, etype |-> "", msg |-> <<>>]
Raised(etype, msg) == [ok |-> FALSE, val |-> None, etype |-> etype, msg |-> msg]

\* current[int(part)] on a list: a negative index counts from the end
ListIndex(current, n) ==
    LET len == Len(current.v)
        i == IF n < 0 THEN n + len ELSE n
    IN  IF i < 0 \/ i >= len THEN Raised("IndexError", S_IndexErrorMsg)
        ELSE Returned(current.v[i + 1])

\* the one element of a singleton set. Written Only({F(x) : x \in {e}}), it
\* gives F(e) with e evaluated once, however often F uses it
Only(S) == CHOOSE x \in S : TRUE

\* one turn of the loop over parts: the next `current`, or the exception
StepPart(current, rawpart, ref_path) ==
    Only({ IF IsDict(current)
           THEN IF HasKey(current, part) THEN Returned(Get(current, part))
                ELSE Raised("KeyError", PyRepr(part))
           ELSE IF IsList(current)
           THEN LET n == PyInt(part) IN
                IF n.ok THEN ListIndex(current, n.val)
                ELSE Raised("ValueError", S_IntErrorMsg \o PyRepr(part))
           ELSE Raised("ValueError", S_CannotResolveMsg \o ref_path)
         : part \in {Unescape(rawpart)} })

RECURSIVE WalkParts(_, _, _)
\* the loop over parts, from `current` on
WalkParts(current, parts, ref_path) ==
    IF parts = <<>> THEN Returned(current)
    ELSE Only({ IF r.ok THEN WalkParts(r.val, Tail(parts), ref_path) ELSE r
              : r \in {StepPart(current, Head(parts), ref_path)} })

\* resolve_ref_pointer(ref_path, root_doc); ref is the node under '$ref'
resolve_ref_pointer(ref, root_doc) ==
    IF ref.k # "str"
    THEN Raised("AttributeError", PyRepr(TypeName(ref)) \o S_NoStartswithMsg)
    ELSE IF ~StartsWith(ref.v, <<"#", "/">>)
    THEN Raised("ValueError", S_ExternalMsg \o ref.v)
    ELSE Only({ WalkParts(root_doc, parts, ref.v)
              : parts \in {Split(SliceFrom(ref.v, 2), "/")} })

\* ------------------------------------------------------------ expand_refs: its pieces
\* {"type": "object", "description": <description>}
Placeholder(description) ==
    Dict(<<KV(S_type, Str(S_object)), KV(S_description, Str(description))>>)
MaxDepthPlaceholder(path) == Placeholder(S_MaxDepthMsg \o path)
CircularPlaceholder(ref) == Placeholder(S_CircularMsg \o PyStr(ref))
ErrorPlaceholder(ref, msg) == Placeholder(S_ErrorMsg \o PyStr(ref) \o <<":", " ">> \o msg)

\* a variant of DepthExceeded: the guard one level early (>= for >)
DepthExceededEarly(depth) == depth >= MAX_DEPTH

\* if depth > MAX_DEPTH
DepthExceeded(depth) == depth > MAX_DEPTH

\* a variant of IsRefNode: only a well-formed internal reference counts
IsRefNodeInternalOnly(obj) ==
    /\ IsDict(obj) /\ HasKey(obj, S_ref)
    /\ Get(obj, S_ref).k = "str" /\ StartsWith(Get(obj, S_ref).v, <<"#", "/">>)

\* isinstance(obj, dict) and '$ref' in obj
IsRefNode(obj) == IsDict(obj) /\ HasKey(obj, S_ref)

\* f"{path}:{ref_path}"
TrackingKey(path, ref) == path \o <<":">> \o PyStr(ref)
\* f"{path}->{ref_path}"
RefPath(path, ref) == path \o <<"-", ">">> \o PyStr(ref)
\* f"{path}.{key}"
KeyPath(path, key) == path \o <<".">> \o key
\* f"{path}[{i}]", i counted from 0
ItemPath(path, i) == path \o <<"[">> \o NatToStr(i) \o <<"]">>

\* a variant of RefDepth: the depth is passed on as it is
RefDepthSame(depth) == depth

\* depth + 1, passed on when a reference is followed
RefDepth(depth) == depth + 1
\* a variant of ChildDepth: every level of nesting counts as depth
ChildDepthDeeper(depth) == depth + 1

\* depth, passed on to the values of a dict and the items of a list
ChildDepth(depth) == depth

\* deepcopy(resolved): an equal value sharing nothing; values here have no identity
deepcopy(node) == node

\* {k: v for k, v in obj.items() if k != '$ref'}
OtherProps(obj) == SelectSeq(obj.v, LAMBDA e : e.key # S_ref)

\* a variant of MergeProps: {**other_props, **resolved}, the target winning
MergePropsTargetWins(resolved, other_props) ==
    Dict([i \in 1..Len(other_props) |->
             IF HasKey(resolved, other_props[i].key)
             THEN KV(other_props[i].key, Get(resolved, other_props[i].key))
             ELSE other_props[i]]
         \o SelectSeq(resolved.v, LAMBDA e : ~HasKey(Dict(other_props), e.key)))

\* {**resolved, **other_props}: resolved's keys in their order, a key of
\* other_props taking other_props' value in place, then other_props' new keys
MergeProps(resolved, other_props) ==
    LET over == Dict(other_props)
        base == [i \in 1..Len(resolved.v) |->
                    IF HasKey(over, resolved.v[i].key)
                    THEN KV(resolved.v[i].key, Get(over, resolved.v[i].key))
                    ELSE resolved.v[i]]
        extra == SelectSeq(other_props, LAMBDA e : ~HasKey(resolved, e.key))
    IN  Dict(base \o extra)

\* lines 63-69: the node the recursive call is made on
Merged(obj, target) ==
    LET resolved == deepcopy(target)
        other_props == OtherProps(obj)
    IN  IF other_props # <<>> /\ IsDict(resolved)
        THEN MergeProps(resolved, other_props)
        ELSE resolved

\* a variant of Caught: except ValueError
CaughtValueError(etype) == etype = "ValueError"

\* except Exception: every exception resolve_ref_pointer raises is one
Caught(etype) == etype \in {"ValueError", "KeyError", "IndexError", "AttributeError"}

\* a variant of SetCopy: the same set object is passed on, not a copy
SetAlias(h, id) == [heap |-> h, id |-> id]

\* visited_paths.copy(): a new set object, equal to the one copied
SetCopy(h, id) == [heap |-> Append(h, h[id]), id |-> Len(h) + 1]

\* the set objects still referred to by a frame; the others are garbage
Free(h, frames) ==
    IF frames = <<>> THEN <<>>
    ELSE LET ids == {frames[i].vp : i \in 1..Len(frames)}
             top == CHOOSE m \in ids : \A n \in ids : n <= m
         IN  SubSeq(h, 1, top)

\* a call of expand_refs(obj, root_doc, path, depth, visited_paths), at its first line
Frame(obj, path, depth, vp) ==
    [obj |-> obj, path |-> path, depth |-> depth, vp |-> vp, pc |-> "start", acc |-> <<>>]

\* no value: nothing returned yet
NoVal == [k |-> "none", v |-> <<>>]

\* s contains sub (a substring test)
Contains(s, sub) ==
    \E i \in 0..(Len(s) - Len(sub)) : SubSeq(s, i + 1, i + Len(sub)) = sub

\* ------------------------------------------------------------ bounds of the input documents
\* schemas in the reference chain S1 -> S2 -> ... of ChainDoc
ChainLen == 15
\* levels of structural nesting in the reference-free DeepDoc
DeepNest == 12

\* ------------------------------------------------------------ input documents
Ref(chars) == Dict(<<KV(S_ref, Str(chars))>>)
SchemaRef(name) == S_SchemasPrefix \o name
Components(schemas) == KV(S_components, Dict(<<KV(S_schemas, Dict(schemas))>>))
TypeString == Dict(<<KV(S_type, Str(S_string))>>)

\* schema A is a reference to itself
SelfCycleDoc == Dict(<<Components(<<KV(<<"A">>, Ref(SchemaRef(<<"A">>)))>>)>>)

PetSchema == Dict(<<KV(S_type, Str(S_object)), KV(S_description, Str(S_original))>>)
\* a reference to Pet with an overriding description beside it
PetDoc ==
    Dict(<<KV(<<"x">>, Dict(<<KV(S_ref, Str(SchemaRef(S_Pet))),
                              KV(S_description, Str(S_override))>>)),
           Components(<<KV(S_Pet, PetSchema)>>)>>)

\* sibling keys beside $ref: colliding, new, before $ref, on a list target,
\* and on a target that is itself a reference with siblings
MergeDoc ==
    Dict(<<KV(<<"m","1">>, Dict(<<KV(S_ref, Str(SchemaRef(S_Pet))),
                                  KV(S_description, Str(S_override)),
                                  KV(<<"e">>, Str(<<"n">>))>>)),
           KV(<<"m","2">>, Dict(<<KV(<<"e">>, Str(<<"n">>)),
                                  KV(S_ref, Str(SchemaRef(S_Pet))),
                                  KV(S_type, Str(S_string))>>)),
           KV(<<"m","3">>, Dict(<<KV(S_ref, Str(SchemaRef(<<"L">>))),
                                  KV(S_description, Str(S_override))>>)),
           KV(<<"m","4">>, Dict(<<KV(S_ref, Str(SchemaRef(<<"Q">>))),
                                  KV(S_description, Str(S_override))>>)),
           Components(<<KV(S_Pet, PetSchema),
                        KV(<<"L">>, List(<<Str(<<"a">>)>>)),
                        KV(<<"Q">>, Dict(<<KV(S_ref, Str(SchemaRef(S_Pet))),
                                           KV(<<"t">>, Str(<<"q">>))>>))>>)>>)

SName(i) == <<"S">> \o NatToStr(i)
ChainSchemas ==
    [i \in 1..ChainLen |->
        KV(SName(i), IF i < ChainLen THEN Ref(SchemaRef(SName(i + 1))) ELSE TypeString)]
\* x refers to S1, S1 to S2, ..., the last schema is a plain one
ChainDoc == Dict(<<KV(<<"x">>, Ref(SchemaRef(SName(1)))), Components(ChainSchemas)>>)

\* A and B refer to each other and are referred to from several places;
\* T is a schema with a property that refers back to T
MutualDoc ==
    Dict(<<KV(<<"a">>, Ref(<<"#","/","A">>)),
           KV(<<"b">>, List(<<Ref(<<"#","/","A">>), Ref(<<"#","/","B">>)>>)),
           KV(<<"A">>, Ref(<<"#","/","B">>)),
           KV(<<"B">>, Ref(<<"#","/","A">>)),
           KV(<<"T">>, Dict(<<KV(<<"v">>, Str(<<"x">>)),
                              KV(<<"n">>, Ref(<<"#","/","T">>))>>))>>)

\* N is a schema with two properties that each lead back to N, through M and
\* K: the expansion branches at every third reference of the cycle
TreeDoc ==
    Dict(<<KV(<<"N">>, Dict(<<KV(<<"l">>, Ref(<<"#","/","M">>)),
                              KV(<<"r">>, Ref(<<"#","/","M">>))>>)),
           KV(<<"M">>, Ref(<<"#","/","K">>)),
           KV(<<"K">>, Ref(<<"#","/","N">>))>>)

\* the references that cannot be resolved, one of each kind
BadNodes ==
    << Ref(S_http),
       Ref(SchemaRef(S_DoesNotExist)),
       Ref(SchemaRef(<<"I","/","5">>)),
       Ref(SchemaRef(<<"I","/","x">>)),
       Dict(<<KV(S_ref, Str(SchemaRef(<<"G","/","t","y","p","e","/","z">>))),
              KV(S_description, Str(S_override))>>),
       Dict(<<KV(S_ref, Num(<<"5">>))>>),
       Dict(<<KV(<<"e">>, Ref(SchemaRef(<<"G">>))), KV(S_ref, None)>>),
       Dict(<<KV(S_ref, Ref(SchemaRef(<<"G">>)))>>),
       Dict(<<KV(S_ref, List(<<Str(<<"#","/","a">>), Num(<<"1">>), Bool(<<"T","r","u","e">>)>>))>>) >>
\* a scalar standing where a bad reference would
Marker == Str(<<"M">>)

\* a document with the node h at three places: beside good references, in a
\* list, and inside the target of a good reference
FaultDoc(h) ==
    Dict(<<KV(<<"o","k">>, Ref(SchemaRef(<<"G">>))),
           KV(<<"b","a","d">>, h),
           KV(<<"w">>, Dict(<<KV(S_ref, Str(SchemaRef(<<"W">>))), KV(<<"s">>, h)>>)),
           KV(<<"l">>, List(<<h, Ref(SchemaRef(<<"G">>))>>)),
           Components(<<KV(<<"G">>, TypeString),
                        KV(<<"I">>, List(<<Str(<<"i">>)>>)),
                        KV(<<"W">>, Dict(<<KV(<<"i","n">>, h),
                                           KV(<<"a","f">>, Ref(SchemaRef(<<"G">>)))>>))>>)>>)

\* pointers of every shape, resolved against the list a and the dicts around it
Pointers ==
    << <<"#","/","a","/","0">>, <<"#","/","a","/","1">>, <<"#","/","a","/","2">>,
       <<"#","/","a","/","-","1">>, <<"#","/","a","/","-","2">>, <<"#","/","a","/","-","3">>,
       <<"#","/","a","/","x">>, <<"#","/","a","/">>, <<"#","/","a","/","+","1">>,
       <<"#","/","a","/","0","1">>, <<"#","/","a","/","1","_","0">>, <<"#","/","a","/"," ","1">>,
       <<"#","/","a","/","0","/","z">>, <<"#","/","a">>, <<"#","/","b">>, <<"#","/">>, <<"#">>,
       <<>>, <<"a">>, <<"/","a">>, <<"#","/","m","/","k","~","1","j">>,
       <<"#","/","m","/","k","~","0","1">>, <<"#","/","m","/","k","/","j">>,
       <<"#","/","m","/","n","/","p">>, <<"#","/","m","/","-","1">>,
       <<"#","/","a","/","-","0">> >>
PointerDoc ==
    Dict(<<KV(<<"a">>, List(<<Str(<<"x">>), Str(<<"y">>)>>)),
           KV(<<"m">>, Dict(<<KV(<<"k","/","j">>, Num(<<"1">>)),
                              KV(<<"k","~","1">>, Num(<<"2">>)),
                              KV(<<"-","1">>, Num(<<"3">>)),
                              KV(<<"n">>, None)>>)),
           KV(<<"r">>, List([i \in 1..Len(Pointers) |-> Ref(Pointers[i])]))>>)

RECURSIVE Deep(_)
\* n levels of dicts and lists, in turn, around a leaf
Deep(n) ==
    IF n = 0 THEN Str(<<"x">>)
    ELSE IF n % 2 = 1
    THEN Dict(<<KV(<<"z">>, Num(<<"1">>)), KV(<<"k">>, Deep(n - 1)), KV(<<"b">>, Bool(<<"T","r","u","e">>))>>)
    ELSE List(<<None, Deep(n - 1)>>)
DeepDoc == Deep(DeepNest)

\* a reference-free document that already holds something shaped like a placeholder
PlainDoc ==
    Dict(<<KV(<<"p">>, Placeholder(S_CircularMsg \o <<"#","/","p">>)),
           KV(<<"a">>, List(<<>>)), KV(<<"d">>, Dict(<<>>)),
           KV(<<"r","e","f">>, Str(<<"#","/","a">>))>>)

\* the same target referred to from sibling keys and list items, once overridden
TwoPlacesDoc ==
    Dict(<<KV(<<"a">>, Dict(<<KV(S_ref, Str(SchemaRef(S_Pet))),
                              KV(S_description, Str(S_override))>>)),
           KV(<<"b">>, Ref(SchemaRef(S_Pet))),
           KV(<<"c">>, List(<<Ref(SchemaRef(S_Pet)), Ref(SchemaRef(S_Pet))>>)),
           Components(<<KV(S_Pet, PetSchema)>>)>>)

\* components at the top level and below it, between other entries
PruneDoc ==
    Dict(<<KV(<<"b">>, Dict(<<KV(S_components, Num(<<"2">>))>>)),
           KV(S_components, Dict(<<KV(S_schemas, Dict(<<>>))>>)),
           KV(<<"c">>, List(<<Str(S_components)>>))>>)

\* the root itself is a reference, with the referred-to node beside it
RootRefDoc ==
    Dict(<<KV(S_ref, Str(<<"#","/","d">>)),
           KV(<<"d">>, Dict(<<KV(S_components, Num(<<"1">>)), KV(<<"k">>, Str(<<"v">>))>>))>>)

\* roots that are not a dict: what json.load and yaml.safe_load may return
OtherRoots ==
    { None, Num(<<"5">>), Str(<<"x","x">>), Str(<<"x">> \o S_components),
      List(<<Str(<<"a">>)>>), List(<<Str(<<"a">>), Str(S_components)>>) }

FaultDocs == {FaultDoc(BadNodes[i]) : i \in 1..Len(BadNodes)} \cup {FaultDoc(Marker)}

Docs ==
    {SelfCycleDoc, PetDoc, MergeDoc, ChainDoc, MutualDoc, TreeDoc, PointerDoc, DeepDoc,
     PlainDoc, TwoPlacesDoc, PruneDoc, RootRefDoc}
    \cup FaultDocs \cup OtherRoots

\* ------------------------------------------------------------ state
VARIABLES
    doc,        \* process_file's doc: the document loaded, also root_doc
    stack,      \* the calls of expand_refs in progress, the innermost last
    heap,       \* the visited_paths set objects alive; a frame's vp names one
    ret,        \* the value the call that just ended returned, or NoVal
    phase,      \* "expand", "prune", "done", or "crashed" (an uncaught exception)
    expanded,   \* what expand_refs(doc, doc) returned
    pruned      \* what remove_unused_components returned

vars == <<doc, stack, heap, ret, phase, expanded, pruned>>

Top == stack[Len(stack)]

\* process_file up to the call expand_refs(doc, doc): path "root", depth 0,
\* visited_paths a new empty set
Init ==
    /\ doc \in Docs
    /\ stack = <<Frame(doc, S_root, 0, 1)>>
    /\ heap = <<{}>>
    /\ ret = NoVal
    /\ phase = "expand"
    /\ expanded = NoVal
    /\ pruned = NoVal

AtStart == phase = "expand" /\ Top.pc = "start" /\ ~DepthExceeded(Top.depth)

\* `return value` out of the innermost call, the set objects being h
Return(value, h) ==
    LET rest == SubSeq(stack, 1, Len(stack) - 1) IN
    /\ stack' = rest
    /\ heap' = Free(h, rest)
    /\ IF rest = <<>>
       THEN ret' = NoVal /\ expanded' = value /\ phase' = "prune"
       ELSE ret' = value /\ UNCHANGED <<expanded, phase>>
    /\ UNCHANGED <<doc, pruned>>

\* the innermost call, now at pc with acc, calls expand_refs on obj with a
\* copy of its visited set
Call(pc, acc, obj, path, depth, h) ==
    LET c == SetCopy(h, Top.vp) IN
    /\ stack' = Append([stack EXCEPT ![Len(stack)].pc = pc, ![Len(stack)].acc = acc],
                       Frame(obj, path, depth, c.id))
    /\ heap' = c.heap
    /\ ret' = NoVal
    /\ UNCHANGED <<doc, phase, expanded, pruned>>

\* an exception no handler catches: it unwinds every call and ends the process
Uncaught ==
    /\ stack' = <<>>
    /\ heap' = <<>>
    /\ ret' = NoVal
    /\ phase' = "crashed"
    /\ UNCHANGED <<doc, expanded, pruned>>

\* lines 42-43
MaxDepthReached ==
    /\ phase = "expand" /\ Top.pc = "start"
    /\ DepthExceeded(Top.depth)
    /\ Return(MaxDepthPlaceholder(Top.path), heap)

\* lines 46-76, up to the recursive call of line 72 or a placeholder's return
ExpandRef ==
    /\ AtStart
    /\ IsRefNode(Top.obj)
    /\ LET ref_path == Get(Top.obj, S_ref)
           tracking_key == TrackingKey(Top.path, ref_path)
       IN  IF tracking_key \in heap[Top.vp]
           THEN Return(CircularPlaceholder(ref_path), heap)
           ELSE LET added == [heap EXCEPT ![Top.vp] = @ \cup {tracking_key}]
                    r == resolve_ref_pointer(ref_path, doc)
                IN  IF r.ok
                    THEN Call("ref", <<>>, Merged(Top.obj, r.val),
                              RefPath(Top.path, ref_path), RefDepth(Top.depth), added)
                    ELSE IF Caught(r.etype)
                    THEN Return(ErrorPlaceholder(ref_path, r.msg), added)
                    ELSE Uncaught

\* lines 72-74: the recursive call is back, its result is returned
ReturnRef ==
    /\ phase = "expand" /\ Top.pc = "ref"
    /\ ret # NoVal
    /\ Return(ret, heap)

\* lines 79-80: the comprehension starts (an empty dict is returned at once)
ExpandDict ==
    /\ AtStart
    /\ IsDict(Top.obj) /\ ~IsRefNode(Top.obj)
    /\ IF Top.obj.v = <<>>
       THEN Return(Dict(<<>>), heap)
       ELSE Call("dict", <<>>, Top.obj.v[1].val, KeyPath(Top.path, Top.obj.v[1].key),
                 ChildDepth(Top.depth), heap)

\* lines 79-80: a value is back; the next one is expanded or the new dict returned
NextDictValue ==
    /\ phase = "expand" /\ Top.pc = "dict"
    /\ ret # NoVal
    /\ LET acc == Append(Top.acc, ret)
           n == Len(acc) + 1
       IN  IF n <= Len(Top.obj.v)
           THEN Call("dict", acc, Top.obj.v[n].val, KeyPath(Top.path, Top.obj.v[n].key),
                     ChildDepth(Top.depth), heap)
           ELSE Return(Dict([i \in 1..Len(acc) |-> KV(Top.obj.v[i].key, acc[i])]), heap)

\* lines 84-85: the comprehension starts (an empty list is returned at once)
ExpandList ==
    /\ AtStart
    /\ IsList(Top.obj)
    /\ IF Top.obj.v = <<>>
       THEN Return(List(<<>>), heap)
       ELSE Call("list", <<>>, Top.obj.v[1], ItemPath(Top.path, 0),
                 ChildDepth(Top.depth), heap)

\* lines 84-85: an item is back; the next one is expanded or the new list returned
NextListItem ==
    /\ phase = "expand" /\ Top.pc = "list"
    /\ ret # NoVal
    /\ LET acc == Append(Top.acc, ret)
           n == Len(acc) + 1
       IN  IF n <= Len(Top.obj.v)
           THEN Call("list", acc, Top.obj.v[n], ItemPath(Top.path, n - 1),
                     ChildDepth(Top.depth), heap)
           ELSE Return(List(acc), heap)

\* lines 87-89
ReturnScalar ==
    /\ AtStart
    /\ IsScalar(Top.obj)
    /\ Return(Top.obj, heap)

\* 'components' in doc, for each kind of doc; "raises" is Python's TypeError
HasComponents(d) ==
    CASE IsDict(d) -> IF HasKey(d, S_components) THEN "yes" ELSE "no"
      [] IsList(d) -> IF \E i \in 1..Len(d.v) : d.v[i] = Str(S_components) THEN "yes" ELSE "no"
      [] d.k = "str" -> IF Contains(d.v, S_components) THEN "yes" ELSE "no"
      [] OTHER -> "raises"

\* remove_unused_components(doc): what it returns, or that it raises
remove_unused_components(d) ==
    LET has == HasComponents(d) IN
    IF has = "no" THEN Returned(d)
    ELSE IF has = "yes" /\ IsDict(d)
    THEN Returned(Dict(SelectSeq(d.v, LAMBDA e : e.key # S_components)))
    ELSE Raised("TypeError", <<>>)

\* line 141 of process_file
Prune ==
    /\ phase = "prune"
    /\ LET r == remove_unused_components(expanded) IN
       IF r.ok
       THEN pruned' = r.val /\ phase' = "done"
       ELSE pruned' = NoVal /\ phase' = "crashed"
    /\ UNCHANGED <<doc, stack, heap, ret, expanded>>

Next ==
    \/ MaxDepthReached
    \/ ExpandRef
    \/ ReturnRef
    \/ ExpandDict
    \/ NextDictValue
    \/ ExpandList
    \/ NextListItem
    \/ ReturnScalar
    \/ Prune

Spec == Init /\ [][Next]_vars

\* the interpreter runs the next statement: no step waits for ever
LiveSpec == Spec /\ WF_vars(Next)

\* ------------------------------------------------------------ what the claims speak of
RECURSIVE HasRef(_)
\* some mapping of the tree has a $ref key
HasRef(n) ==
    IF IsDict(n)
    THEN HasKey(n, S_ref) \/ \E i \in 1..Len(n.v) : HasRef(n.v[i].val)
    ELSE IF IsList(n) THEN \E i \in 1..Len(n.v) : HasRef(n.v[i])
    ELSE FALSE

RECURSIVE WellFormed(_)
\* a tree of dicts with distinct keys, lists and scalars
WellFormed(n) ==
    IF IsDict(n)
    THEN /\ \A i, j \in 1..Len(n.v) : n.v[i].key = n.v[j].key => i = j
         /\ \A i \in 1..Len(n.v) : WellFormed(n.v[i].val)
    ELSE IF IsList(n) THEN \A i \in 1..Len(n.v) : WellFormed(n.v[i])
    ELSE n.k \in {"str", "int", "bool", "NoneType"}

Expanding == phase = "expand"
\* expand_refs(doc, doc) has returned
Expanded == phase # "expand" /\ expanded # NoVal
\* the calls that have followed their reference and wait for the recursive call
Following == {i \in 1..Len(stack) : stack[i].pc = "ref"}
\* a Max-depth placeholder has just come back to the call that followed a reference
JustHitMaxDepth ==
    /\ Expanding /\ Top.pc = "ref"
    /\ ret = MaxDepthPlaceholder(RefPath(Top.path, Get(Top.obj, S_ref)))

\* C1: the tree expand_refs returns, and every value a recursive call returns,
\* holds no mapping with a $ref key, whatever the references of the document are.
C1_NoRefInOutput ==
    /\ ret # NoVal => ~HasRef(ret)
    /\ Expanded => ~HasRef(expanded)
    /\ phase = "done" => ~HasRef(pruned)

C1_Witness ==
    /\ phase = "prune" /\ doc = MutualDoc
    /\ HasRef(doc) /\ ~HasRef(expanded)

\* C2 (as claimed): the self-referring schema A expands to the Circular-reference
\* placeholder, and no chain of calls follows the same reference string twice
\* (the second arrival is stopped by the visited set).
C2_SelfCycleDetected ==
    /\ Expanded /\ doc = SelfCycleDoc =>
          expanded = Dict(<<Components(<<KV(<<"A">>,
                          CircularPlaceholder(Str(SchemaRef(<<"A">>))))>>)>>)
    /\ \A i, j \in Following :
          i < j => Get(stack[i].obj, S_ref) # Get(stack[j].obj, S_ref)

RECURSIVE ChainPath(_)
\* root.x->#/components/schemas/S1->...->#/components/schemas/Sn
ChainPath(n) ==
    IF n = 0 THEN KeyPath(S_root, <<"x">>)
    ELSE RefPath(ChainPath(n - 1), Str(SchemaRef(SName(n))))

\* C3 (as claimed): in the chain document, the Max-depth placeholder is produced
\* after at most 10 references have been followed.
C3_PlaceholderByDepth10 ==
    doc = ChainDoc /\ JustHitMaxDepth => Cardinality(Following) <= MAX_DEPTH

\* C3 (amended): in the chain document the expansion of x ends in the Max-depth
\* placeholder, produced by the call of depth MAX_DEPTH + 1 = 11, after exactly
\* 11 references (S1 to S11) have been followed.
C3_PlaceholderAtDepth11 ==
    /\ doc = ChainDoc /\ JustHitMaxDepth =>
          /\ Cardinality(Following) = MAX_DEPTH + 1
          /\ Top.depth = MAX_DEPTH
    /\ doc = ChainDoc /\ Expanding /\ Top.pc = "start" /\ DepthExceeded(Top.depth) =>
          Top.depth = MAX_DEPTH + 1
    /\ doc = ChainDoc /\ Expanded =>
          Get(expanded, <<"x">>) = MaxDepthPlaceholder(ChainPath(MAX_DEPTH + 1))

C3_Witness ==
    /\ doc = ChainDoc /\ JustHitMaxDepth
    /\ Top.path = ChainPath(MAX_DEPTH)

\* the depth of each call against its caller's: one more after a reference,
\* the same below a dict or a list; a call that has called is within MAX_DEPTH
DepthDiscipline ==
    Expanding =>
       /\ stack[1].depth = 0
       /\ \A i \in 1..(Len(stack) - 1) :
             /\ stack[i].depth <= MAX_DEPTH
             /\ stack[i + 1].depth =
                   stack[i].depth + (IF stack[i].pc = "ref" THEN 1 ELSE 0)

\* C4: every expansion ends, with a well-formed tree; depth grows only where a
\* reference is followed, and no call deeper than MAX_DEPTH calls further.
C4_Termination ==
    /\ <>(phase # "expand")
    /\ [](phase # "expand" => Expanded /\ WellFormed(expanded))
    /\ []DepthDiscipline

C4_Witness ==
    /\ phase = "prune" /\ doc = MutualDoc
    /\ WellFormed(expanded)

\* the message of the exception each of BadNodes ends in
BadMessages ==
    << S_ExternalMsg \o S_http,
       PyRepr(S_DoesNotExist),
       S_IndexErrorMsg,
       S_IntErrorMsg \o <<"'", "x", "'">>,
       S_CannotResolveMsg \o SchemaRef(<<"G","/","t","y","p","e","/","z">>),
       <<"'", "i", "n", "t", "'">> \o S_NoStartswithMsg,
       <<"'", "N", "o", "n", "e", "T", "y", "p", "e", "'">> \o S_NoStartswithMsg,
       <<"'", "d", "i", "c", "t", "'">> \o S_NoStartswithMsg,
       <<"'", "l", "i", "s", "t", "'">> \o S_NoStartswithMsg >>

\* str(ref_path) for each of BadNodes, as the placeholder's description shows it
BadRefTexts ==
    << S_http,
       SchemaRef(S_DoesNotExist),
       SchemaRef(<<"I","/","5">>),
       SchemaRef(<<"I","/","x">>),
       SchemaRef(<<"G","/","t","y","p","e","/","z">>),
       <<"5">>,
       <<"N","o","n","e">>,
       <<"{","'","$","r","e","f","'",":"," ","'">> \o SchemaRef(<<"G">>) \o <<"'","}">>,
       <<"[","'","#","/","a","'",","," ","1",","," ","T","r","u","e","]">> >>

\* {"type": "object", "description": "Error resolving <ref>: <message>"} for BadNodes[i]
BadPlaceholder(i) ==
    Placeholder(S_ErrorMsg \o BadRefTexts[i] \o <<":", " ">> \o BadMessages[i])

\* FaultDoc(h) expanded, with e where h was
ExpectedFault(e) ==
    Dict(<<KV(<<"o","k">>, TypeString),
           KV(<<"b","a","d">>, e),
           KV(<<"w">>, Dict(<<KV(<<"i","n">>, e), KV(<<"a","f">>, TypeString), KV(<<"s">>, e)>>)),
           KV(<<"l">>, List(<<e, TypeString>>)),
           Components(<<KV(<<"G">>, TypeString),
                        KV(<<"I">>, List(<<Str(<<"i">>)>>)),
                        KV(<<"W">>, Dict(<<KV(<<"i","n">>, e), KV(<<"a","f">>, TypeString)>>))>>)>>)

\* C5: no exception leaves expand_refs; a document with a bad reference expands
\* as the same document with a scalar in its place does, except that, where the
\* scalar would be, there is the Error-resolving placeholder of that reference.
C5_FaultIsolation ==
    /\ phase = "crashed" => expanded # NoVal
    /\ Expanded /\ doc = FaultDoc(Marker) => expanded = ExpectedFault(Marker)
    /\ \A i \in 1..Len(BadNodes) :
          Expanded /\ doc = FaultDoc(BadNodes[i]) => expanded = ExpectedFault(BadPlaceholder(i))

C5_Witness ==
    /\ phase = "prune" /\ doc = FaultDoc(BadNodes[2])
    /\ expanded = ExpectedFault(BadPlaceholder(2))

\* C6: where a reference with sibling keys is followed to a mapping, the node
\* expanded next has the target's keys and the siblings' keys, each once, a
\* sibling key with the sibling's value, any other with the target's; its $ref
\* entry, if it has one, is the target's. Pet overridden expands as in the spec.
C6_SiblingOverride ==
    /\ \A i \in 1..(Len(stack) - 1) :
          stack[i].pc = "ref" =>
             LET node == stack[i].obj
                 target == resolve_ref_pointer(Get(node, S_ref), doc).val
                 merged == stack[i + 1].obj
                 siblings == Keys(node) \ {S_ref}
             IN  siblings # {} /\ IsDict(target) =>
                    /\ IsDict(merged)
                    /\ Keys(merged) = Keys(target) \cup siblings
                    /\ Len(merged.v) = Cardinality(Keys(merged))
                    /\ \A key \in siblings : Get(merged, key) = Get(node, key)
                    /\ \A key \in Keys(target) \ siblings : Get(merged, key) = Get(target, key)
    /\ Expanded /\ doc = PetDoc =>
          Get(expanded, <<"x">>) =
             Dict(<<KV(S_type, Str(S_object)), KV(S_description, Str(S_override))>>)

C6_Witness ==
    /\ phase = "prune" /\ doc = PetDoc
    /\ Get(Get(expanded, <<"x">>), S_description) = Str(S_override)

\* C7: a document without any $ref is returned equal to itself, keys and items
\* in their order, however deeply it is nested.
C7_IdentityOnRefFree ==
    Expanded /\ ~HasRef(doc) => expanded = doc

C7_Witness ==
    /\ phase = "prune" /\ doc = DeepDoc /\ DeepNest > MAX_DEPTH
    /\ ~HasRef(doc) /\ expanded = doc

\* C8 (as claimed): once pruning has run, the result is the expanded document
\* without its top-level components entry, or the expanded document itself
\* when it has none, whatever kind of value the root is.
C8_ComponentsPruned ==
    phase \in {"done", "crashed"} =>
       /\ phase = "done"
       /\ pruned = IF IsDict(expanded) /\ HasKey(expanded, S_components)
                   THEN Dict(SelectSeq(expanded.v, LAMBDA e : e.key # S_components))
                   ELSE expanded

RECURSIVE CyclePath(_, _, _, _)
\* base->#/first->#/second->#/first->..., n references long
CyclePath(base, n, first, second) ==
    IF n = 0 THEN base
    ELSE RefPath(CyclePath(base, n - 1, first, second),
                 Str(<<"#", "/">> \o (IF n % 2 = 1 THEN first ELSE second)))

\* C9: the visited set of a call holds the tracking keys of the references
\* followed by the calls it is nested in (itself included) and no others, so
\* none added in a sibling branch; the occurrences of Pet in TwoPlacesDoc each
\* expand to Pet, the override showing only where it was written; the
\* occurrences of the cyclic A in MutualDoc each run to their own depth limit.
C9_PerPathIndependence ==
    /\ \A j \in 1..Len(stack) :
          heap[stack[j].vp] =
             {TrackingKey(stack[i].path, Get(stack[i].obj, S_ref)) :
                 i \in {f \in Following : f <= j}}
    /\ Expanded /\ doc = TwoPlacesDoc =>
          expanded =
             Dict(<<KV(<<"a">>, Dict(<<KV(S_type, Str(S_object)),
                                       KV(S_description, Str(S_override))>>)),
                    KV(<<"b">>, PetSchema),
                    KV(<<"c">>, List(<<PetSchema, PetSchema>>)),
                    Components(<<KV(S_Pet, PetSchema)>>)>>)
    /\ Expanded /\ doc = MutualDoc =>
          /\ Get(expanded, <<"a">>) =
                MaxDepthPlaceholder(CyclePath(KeyPath(S_root, <<"a">>), MAX_DEPTH + 1,
                                              <<"A">>, <<"B">>))
          /\ Get(expanded, <<"b">>) =
                List(<<MaxDepthPlaceholder(CyclePath(ItemPath(KeyPath(S_root, <<"b">>), 0),
                                                     MAX_DEPTH + 1, <<"A">>, <<"B">>)),
                       MaxDepthPlaceholder(CyclePath(ItemPath(KeyPath(S_root, <<"b">>), 1),
                                                     MAX_DEPTH + 1, <<"B">>, <<"A">>))>>)

C9_Witness ==
    /\ doc = TwoPlacesDoc /\ Expanding
    /\ Len(stack) = 3 /\ stack[2].pc = "ref" /\ stack[2].path = KeyPath(S_root, <<"b">>)

RECURSIVE ClaimedWalk(_, _)
\* the walk as claimed: a key of the mapping, or a non-negative index within
\* the sequence; [ok, val]
ClaimedWalk(current, parts) ==
    IF parts = <<>> THEN [ok |-> TRUE, val |-> current]
    ELSE LET part == Unescape(Head(parts)) IN
         IF IsDict(current) /\ HasKey(current, part)
         THEN ClaimedWalk(Get(current, part), Tail(parts))
         ELSE IF IsList(current) /\ PyInt(part).ok
                 /\ PyInt(part).val >= 0 /\ PyInt(part).val < Len(current.v)
         THEN ClaimedWalk(current.v[PyInt(part).val + 1], Tail(parts))
         ELSE [ok |-> FALSE, val |-> None]

\* C10 (as claimed): a pointer is resolved to the node the walk reaches exactly
\* when every segment is a key of the mapping or a non-negative index within
\* the sequence; otherwise resolving is an error, and a pointer that does not
\* begin with #/ is the unsupported-reference error.
C10_PointerResolution ==
    \A j \in 1..Len(stack) :
       IsRefNode(stack[j].obj) /\ Get(stack[j].obj, S_ref).k = "str" =>
          LET ref_path == Get(stack[j].obj, S_ref)
              r == resolve_ref_pointer(ref_path, doc)
              claimed == ClaimedWalk(doc, Split(SliceFrom(ref_path.v, 2), "/"))
          IN  IF StartsWith(ref_path.v, <<"#", "/">>)
              THEN r.ok = claimed.ok /\ (r.ok => r.val = claimed.val)
              ELSE ~r.ok /\ r.msg = S_ExternalMsg \o ref_path.v
====
